---- MODULE Spec2Model ----
(***************************************************************************)
(* A model of microfont: the MFNT container builder (font_to_microfont.py) *)
(* and the on-device reader and blitter (microfont.py).                    *)
(*                                                                         *)
(* Python sequences are 0-based; TLA+ sequences are 1-based.  At(s, i) is  *)
(* Python's s[i], Slice(s, a, b) is Python's s[a:b].  Characters are their *)
(* ordinals.  Python's >> n on an int is floor division by 2^n, & (2^n-1)  *)
(* is the non-negative remainder: TLA+'s \div and % are exactly these.     *)
(***************************************************************************)
EXTENDS Integers, Sequences, FiniteSets, TLC

VARIABLES
    \* -- builder and reader (SpecFont)
    fnt,        \* the Font object after Font.__init__
    args,       \* the command line: hmap, reverse, the charset, what the face covers
    file,       \* bytes of the output container on storage
    rd,         \* the MicroFont reader object
    ret,        \* what the last get_ch call returned (or the exception raised)
    fpc,        \* position: "built" -> "written" -> "open"
    \* -- binary search, one probe per step (SpecBs)
    bsv,
    \* -- capacity of the data section and write_font's file handling (SpecCap)
    cap,
    \* -- drawing (SpecDraw)
    drw,
    \* -- height fitting (SpecFit)
    fit,
    \* -- text layout (SpecWrite; the reader is rd, its container file)
    wr,
    \* -- compositing of the glyphs into their bitmaps (SpecBlt)
    asg

vars == <<fnt, args, file, rd, ret, fpc, bsv, cap, drw, fit, wr, asg>>
fontVars == <<fnt, args, file, rd, ret, fpc>>

Idle == [pc |-> "idle"]

(***************************************************************************)
(* Python helpers                                                          *)
(***************************************************************************)
At(s, i) == s[i + 1]

Min2(a, b) == IF a < b THEN a ELSE b
Max2(a, b) == IF a > b THEN a ELSE b
Abs(a) == IF a < 0 THEN -a ELSE a

\* s[a:b] for 0 <= a, 0 <= b (Python clips both to len(s))
Slice(s, a, b) ==
    LET lo == Min2(a, Len(s))
        hi == Min2(b, Len(s))
    IN  IF hi <= lo THEN << >> ELSE [i \in 1..(hi - lo) |-> s[lo + i]]

Zeros(n) == [i \in 1..n |-> 0]

\* 1 << n
Pow2(n) == 2 ^ n

\* a | b on non-negative ints
RECURSIVE BitOr(_, _)
BitOr(a, b) ==
    IF a = 0 THEN b
    ELSE IF b = 0 THEN a
    ELSE Max2(a % 2, b % 2) + 2 * BitOr(a \div 2, b \div 2)

\* a & b on non-negative ints
RECURSIVE BitAnd(_, _)
BitAnd(a, b) ==
    IF a = 0 \/ b = 0 THEN 0
    ELSE Min2(a % 2, b % 2) + 2 * BitAnd(a \div 2, b \div 2)

\* a ^ b on non-negative ints
RECURSIVE BitXor(_, _)
BitXor(a, b) ==
    IF a = 0 THEN b
    ELSE IF b = 0 THEN a
    ELSE ((a + b) % 2) + 2 * BitXor(a \div 2, b \div 2)

\* Mutant of ToBytes2Fits: no overflow check, the value silently cut to 16 bits
ToBytes2FitsAlways(n) == TRUE

\* n.to_bytes(2, byteorder="little"): OverflowError unless 0 <= n <= 65535
ToBytes2Fits(n) == n >= 0 /\ n <= 65535
ToBytes2(n) == <<n % 256, (n \div 256) % 256>>

\* sorted(set of ordinals)
RECURSIVE Sorted(_)
Sorted(S) ==
    IF S = {} THEN << >>
    ELSE LET m == CHOOSE x \in S : \A y \in S : x <= y
         IN  <<m>> \o Sorted(S \ {m})

SetMax(S) == CHOOSE x \in S : \A y \in S : y <= x
SetMin(S) == CHOOSE x \in S : \A y \in S : x <= y

(***************************************************************************)
(* font_to_microfont.py: Bitmap                                            *)
(***************************************************************************)
\* Bitmap(width, height): pixels = bytearray(width * height)
Bitmap(width, height) ==
    [width |-> width, height |-> height, pixels |-> Zeros(width * height)]

\* One byte of Bitmap.get_hbyte: the pixels of `row` in columns 8k .. 8k+7 that
\* are below the width, MSB first (LSB first when reversed).  Pixels are 0/1,
\* each lands on its own bit, so |= adds.
RECURSIVE HByteBits(_, _, _, _, _)
HByteBits(bm, reverse, row, k, bit) ==
    IF bit > 7 THEN 0
    ELSE LET col == 8 * k + bit
             px  == IF col < bm.width THEN At(bm.pixels, row * bm.width + col) ELSE 0
         IN  px * Pow2(IF reverse THEN bit ELSE 7 - bit)
             + HByteBits(bm, reverse, row, k, bit + 1)

\* The bytes get_hbyte yields for rows row .. height-1, from byte k of `row` on.
\* A row ends at the first col that is a multiple of 8 and >= width.
RECURSIVE HBytesFrom(_, _, _, _)
HBytesFrom(bm, reverse, row, k) ==
    IF row >= bm.height THEN << >>
    ELSE IF 8 * k >= bm.width THEN HBytesFrom(bm, reverse, row + 1, 0)
    ELSE <<HByteBits(bm, reverse, row, k, 0)>> \o HBytesFrom(bm, reverse, row, k + 1)

get_hbyte(bm, reverse) == HBytesFrom(bm, reverse, 0, 0)

\* One byte of Bitmap.get_vbyte: rows 8k .. 8k+7 of column col, LSB first
\* (MSB first when reversed).
RECURSIVE VByteBits(_, _, _, _, _)
VByteBits(bm, reverse, col, k, bit) ==
    IF bit > 7 THEN 0
    ELSE LET row == 8 * k + bit
             px  == IF row < bm.height THEN At(bm.pixels, row * bm.width + col) ELSE 0
         IN  px * Pow2(IF reverse THEN 7 - bit ELSE bit)
             + VByteBits(bm, reverse, col, k, bit + 1)

RECURSIVE VBytesFrom(_, _, _, _)
VBytesFrom(bm, reverse, col, k) ==
    IF col >= bm.width THEN << >>
    ELSE IF 8 * k >= bm.height THEN VBytesFrom(bm, reverse, col + 1, 0)
    ELSE <<VByteBits(bm, reverse, col, k, 0)>> \o VBytesFrom(bm, reverse, col, k + 1)

get_vbyte(bm, reverse) == VBytesFrom(bm, reverse, 0, 0)

(***************************************************************************)
(* font_to_microfont.py: Font                                              *)
(***************************************************************************)
\* The '' entry of Font.charset (a character in range that is not defined)
NoChar == -1
\* defchar is None for a binary font
NoneChar == -2

RangeSeq(lo, hi) == IF hi < lo THEN << >> ELSE [i \in 1..(hi - lo + 1) |-> lo + i - 1]

SeqElems(s) == {s[i] : i \in 1..Len(s)}

\* Font.__init__: the characters of .charset that the rasterizer is asked about
FontCl(defchar, charset, covered) == {x \in {defchar} \cup charset : x \in covered}

\* Font.__init__ can build .charset: min(cl) and max(cl) need a non-empty cl
FontCharsetDefined(defchar, charset, covered) ==
    defchar = NoneChar \/ charset = {} \/ FontCl(defchar, charset, covered) # {}

\* Font.__init__: .charset, item 0 the default char, then increasing ordinals.
\* `charset` is the set of characters of the charset string ({} for "").
FontCharset(defchar, charset, minchar, maxchar, covered) ==
    IF defchar = NoneChar THEN RangeSeq(minchar, maxchar)
    ELSE IF charset = {} THEN <<defchar>> \o RangeSeq(minchar, maxchar)
    ELSE LET cl == FontCl(defchar, charset, covered)
             cr == RangeSeq(SetMin(cl), SetMax(cl))
             cs == [i \in 1..Len(cr) |->
                      IF cr[i] \in charset /\ cr[i] \in covered THEN cr[i] ELSE NoChar]
         IN  <<defchar>> \o cs

\* Font.__init__: self.crange, the range(start, stop) of ordinals: minchar ..
\* maxchar, or for an explicit charset min(cl) .. max(cl)
FontCrange(defchar, charset, minchar, maxchar, covered) ==
    IF defchar = NoneChar \/ charset = {}
    THEN [start |-> minchar, stop |-> maxchar + 1]
    ELSE [start |-> SetMin(FontCl(defchar, charset, covered)),
          stop  |-> SetMax(FontCl(defchar, charset, covered)) + 1]

\* min(crange) and max(crange) raise ValueError on an empty range
CrangeEmpty(cr) == cr.stop <= cr.start

\* Font.__init__: self.update(dict.fromkeys([c for c in self.charset if c]))
FontKeys(cs) == {c \in SeqElems(cs) : c # NoChar}

\* Glyph.__init__ on what from_glyphslot hands it.  The advance is FreeType's
\* 26.6 value slot.advance.x: advance_width is adv64 / 64, kept as adv64.
Glyph(pixels, width, height, top, left, adv64) ==
    LET descent == Max2(0, height - top)
    IN  [bitmap  |-> [width |-> width, height |-> height, pixels |-> pixels],
         top     |-> top,
         left    |-> left,
         descent |-> descent,
         ascent  |-> Max2(0, Max2(top, height) - descent),
         adv64   |-> adv64]

\* int(max(advance_width, n)) for an advance of adv64 / 64 >= 0
IntMaxAdvance(adv64, n) == IF adv64 > 64 * n THEN adv64 \div 64 ELSE n

\* The measuring pass of bmp_dimensions / get_dimensions over self.keys():
\* max ascent, max descent and max width of the glyphs `face` renders
RECURSIVE MeasureFrom(_, _, _, _)
MeasureFrom(face, ks, i, acc) ==
    IF i > Len(ks) THEN acc
    ELSE LET g == face[ks[i]]
         IN  MeasureFrom(face, ks, i + 1,
                 [max_ascent  |-> Max2(acc.max_ascent, g.ascent),
                  max_descent |-> Max2(acc.max_descent, g.descent),
                  max_width   |-> IntMaxAdvance(g.adv64,
                                     Max2(acc.max_width, g.bitmap.width))])

Measure(face, keys) ==
    MeasureFrom(face, Sorted(keys), 1,
                [max_ascent |-> 0, max_descent |-> 0, max_width |-> 0])

\* Python's s[i] = v on a bytearray of length n: -n <= i < n, a negative i
\* counts from the end
IndexOk(n, i) == i >= -n /\ i < n
PyIndex(n, i) == IF i < 0 THEN n + i ELSE i

\* Bitmap.bitblt: the pixels afterwards, or IndexError.  k counts the source
\* pixels copied so far; the destination of source pixel k is
\* top * width + left + k + (k div src.width) * row_offset.
RECURSIVE BitbltFrom(_, _, _, _, _)
BitbltFrom(dst, src, top, left, k) ==
    IF k >= src.width * src.height THEN [exc |-> "none", pixels |-> dst.pixels]
    ELSE LET dstpixel == top * dst.width + left + k
                         + (k \div src.width) * (dst.width - src.width)
             n        == Len(dst.pixels)
         IN  IF ~IndexOk(n, dstpixel) THEN [exc |-> "IndexError", pixels |-> dst.pixels]
             ELSE BitbltFrom([dst EXCEPT !.pixels[PyIndex(n, dstpixel) + 1] =
                                             At(src.pixels, k)],
                             src, top, left, k + 1)

bitblt(dst, src, top, left) == BitbltFrom(dst, src, top, left, 0)

\* Font._assign_values for one character: [bitmap, width, char_width]
AssignValue(g, height, max_descent, monowidth) ==
    LET char_width == IF g.left >= 0
                      THEN IntMaxAdvance(g.adv64, g.bitmap.width + g.left)
                      ELSE IntMaxAdvance(g.adv64 - 64 * g.left, g.bitmap.width)
        left       == IF g.left >= 0 THEN g.left ELSE 0
        width      == IF monowidth # 0 THEN monowidth ELSE char_width
        row        == height - g.ascent - max_descent
        blt        == bitblt(Bitmap(width, height), g.bitmap, row, left)
    IN  [exc        |-> blt.exc,
         bitmap     |-> [width |-> width, height |-> height, pixels |-> blt.pixels],
         width      |-> width,
         char_width |-> char_width,
         row        |-> row,
         left       |-> left]

\* Font.__init__ for the glyphs `face` renders at the selected size: the Font
\* object (exc = "none"), or the exception that ends the construction
Font(face, minchar, maxchar, monospaced, defchar, charset, covered) ==
    IF ~FontCharsetDefined(defchar, charset, covered) THEN [exc |-> "ValueError"]
    ELSE LET cs    == FontCharset(defchar, charset, minchar, maxchar, covered)
             keys  == FontKeys(cs)
             dim   == Measure(face, keys)
             h     == dim.max_ascent + dim.max_descent
             monow == IF monospaced THEN dim.max_width ELSE 0
             vals  == [c \in keys |-> AssignValue(face[c], h, dim.max_descent, monow)]
         IN  IF \E c \in keys : vals[c].exc # "none" THEN [exc |-> "IndexError"]
             ELSE [exc         |-> "none",
                   defchar     |-> defchar,
                   crange      |-> FontCrange(defchar, charset, minchar, maxchar, covered),
                   charset     |-> cs,
                   monospaced  |-> monospaced,
                   height      |-> h,
                   max_ascent  |-> dim.max_ascent,
                   max_descent |-> dim.max_descent,
                   max_width   |-> dim.max_width,
                   width       |-> monow,
                   glyph       |-> [c \in keys |->
                                      [bitmap     |-> vals[c].bitmap,
                                       width      |-> vals[c].width,
                                       char_width |-> vals[c].char_width]]]

\* Font.stream_char
stream_char(f, char, hmap, reverse) ==
    IF hmap THEN get_hbyte(f.glyph[char].bitmap, reverse)
    ELSE get_vbyte(f.glyph[char].bitmap, reverse)

\* build_arrays.append_data: the glyph block of `char`.  The width's
\* to_bytes(2) raises OverflowError above 65535.
AppendFits(f, char) == ToBytes2Fits(f.glyph[char].width)
append_data(f, data, char, hmap, reverse) ==
    data \o ToBytes2(f.glyph[char].width) \o stream_char(f, char, hmap, reverse)

\* Mutant of PadData: the padding forgotten
PadDataNone(data) == data

\* build_arrays: pad = len(data) % 8; if pad: data += bytearray(8 - pad)
PadData(data) ==
    LET pad == Len(data) % 8
    IN  IF pad # 0 THEN data \o Zeros(8 - pad) ELSE data

\* Mutant of IndexedChars: the default char left out of the index
IndexedCharsNoDefault(f) == Sorted(DOMAIN f.glyph \ {f.charset[1]})

\* The characters build_arrays gives a sparse index entry: sorted(self.keys())
IndexedChars(f) == Sorted(DOMAIN f.glyph)

\* build_arrays: the loop over the indexed characters, from position i on
RECURSIVE BuildLoop(_, _, _, _, _, _, _)
BuildLoop(f, ks, i, data, sparse, hmap, reverse) ==
    IF i > Len(ks) THEN [exc |-> "none", data |-> data, sparse |-> sparse]
    ELSE LET char   == ks[i]
             padded == PadData(data)
         IN  IF ~ToBytes2Fits(char) THEN [exc |-> "OverflowError"]
             ELSE IF ~ToBytes2Fits(Len(padded) \div 8) THEN [exc |-> "ValueError"]
             ELSE IF ~AppendFits(f, char) THEN [exc |-> "OverflowError"]
             ELSE BuildLoop(f, ks, i + 1,
                            append_data(f, padded, char, hmap, reverse),
                            sparse \o ToBytes2(char) \o ToBytes2(Len(padded) \div 8),
                            hmap, reverse)

\* Font.build_arrays: data[0] is the default char, then one padded block and
\* one sparse entry per indexed character
build_arrays(f, hmap, reverse) ==
    IF ~AppendFits(f, f.charset[1]) THEN [exc |-> "OverflowError"]
    ELSE BuildLoop(f, IndexedChars(f), 1,
                   append_data(f, << >>, f.charset[1], hmap, reverse), << >>,
                   hmap, reverse)

\* struct.pack("<L", n)
PackU32(n) == <<n % 256, (n \div 256) % 256, (n \div 65536) % 256, (n \div 16777216) % 256>>

\* bytes("MFNT", "utf-8")
Magic == <<77, 70, 78, 84>>

\* struct.pack "B" takes 0..255
FitsU8(n) == n >= 0 /\ n <= 255

\* write_data: what reaches the stream, or the exception that leaves it.
\* minchar = min(fnt.crange) comes first and raises on an empty range.
write_data(f, hmap, reverse) ==
    LET b == build_arrays(f, hmap, reverse)
    IN  IF CrangeEmpty(f.crange) THEN [exc |-> "ValueError", out |-> << >>]
        ELSE IF b.exc # "none" THEN [exc |-> b.exc, out |-> << >>]
        ELSE IF ~(FitsU8(f.height) /\ FitsU8(f.max_ascent) /\ FitsU8(f.max_width))
        THEN [exc |-> "struct.error", out |-> << >>]
        ELSE [exc |-> "none",
              out |-> Magic \o <<f.height, f.max_ascent, f.max_width,
                                 IF f.monospaced THEN 1 ELSE 0>>
                      \o PackU32(Len(b.sparse)) \o b.sparse \o b.data]

(***************************************************************************)
(* microfont.py: MicroFont, the reader                                     *)
(***************************************************************************)
\* The header is 12 bytes: stream.read(12), and the 12 of get_ch's data seek
HeaderLen == 12
\* Where get_ch seeks before it reads the index: self.stream.seek(0)
IndexSeek == 0

\* stream.seek(pos); stream.read(n): a read past the end is short, not an error
FileRead(f, pos, n) == Slice(f, pos, pos + n)

\* struct.unpack "<L"
UnpackU32(b) == b[1] + 256 * b[2] + 65536 * b[3] + 16777216 * b[4]

\* MicroFont.__init__: the reader object, or the exception
MicroFontInit(f, cache_index, cache_chars) ==
    LET header_data == FileRead(f, 0, HeaderLen)
    IN  IF Len(header_data) # HeaderLen
        THEN [exc |-> "ValueError: Corrupted header"]
        ELSE IF Slice(header_data, 0, 4) # Magic
        THEN [exc |-> "ValueError: not a MicroFont file"]
        ELSE [exc         |-> "none",
              height      |-> At(header_data, 4),
              baseline    |-> At(header_data, 5),
              max_width   |-> At(header_data, 6),
              monospaced  |-> At(header_data, 7) # 0,
              index_len   |-> UnpackU32(Slice(header_data, 8, 12)),
              cache_chars |-> cache_chars,
              cache_index |-> cache_index \/ cache_chars,
              index       |-> << >>,
              cache       |-> << >>,
              reads       |-> << >>,
              calls       |-> 0]

\* MicroFont.read_int_16 (IndexError on fewer than 2 bytes)
ReadInt16Defined(l) == Len(l) >= 2
read_int_16(l) == BitOr(At(l, 0), At(l, 1) * 256)

\* MicroFont.bs: m = (len(index) & ~ 7) >> 1
bs_m(index) == (Len(index) - (Len(index) % 8)) \div 2

\* MicroFont.bs: v = index[m] | index[m+1] << 8
bs_v(index, m) == BitOr(At(index, m), At(index, m + 1) * 256)

\* Mutant of bs_half: the halves taken the wrong way round
bs_half_swapped(index, m, v, val) ==
    IF v < val THEN Slice(index, 0, m) ELSE Slice(index, m, Len(index))

\* MicroFont.bs: the slice the search goes on with
bs_half(index, m, v, val) ==
    IF v < val THEN Slice(index, m, Len(index)) ELSE Slice(index, 0, m)

\* MicroFont.bs: the offset found, 0 on a miss; IndexError when a probe reads
\* past the end of the slice (an empty or ragged index)
RECURSIVE bs(_, _)
bs(index, val) ==
    LET m == bs_m(index)
    IN  IF m + 1 >= Len(index) THEN [exc |-> "IndexError", off |-> 0]
        ELSE LET v == bs_v(index, m)
             IN  IF v = val
                 THEN IF m + 3 >= Len(index) THEN [exc |-> "IndexError", off |-> 0]
                      ELSE [exc |-> "none",
                            off |-> BitOr(At(index, m + 2), At(index, m + 3) * 256)]
                 ELSE IF m = 0 THEN [exc |-> "none", off |-> 0]
                 ELSE bs(bs_half(index, m, v, val), val)

\* Mutant of GetChIndex: the index read from past the header when it is not
\* retained, the retained one left as get_ch read it
GetChIndexPastHeader(r, f) ==
    IF r.index # << >> THEN r.index[1] ELSE FileRead(f, HeaderLen, r.index_len)

\* get_ch: the index it searches, from the cache or from storage
GetChIndex(r, f) ==
    IF r.index # << >> THEN r.index[1] ELSE FileRead(f, IndexSeek, r.index_len)

\* get_ch past the glyph cache: the value returned, or the exception
GetChDecode(r, f, ch) ==
    LET found == bs(GetChIndex(r, f), ch)
    IN  IF found.exc # "none" THEN [exc |-> found.exc]
        ELSE LET doff  == found.off * 8
                 pos   == HeaderLen + r.index_len + doff
                 wb    == FileRead(f, pos, 2)
             IN  IF ~ReadInt16Defined(wb) THEN [exc |-> "IndexError"]
                 ELSE LET width == read_int_16(wb)
                          n     == ((width + 7) \div 8) * r.height
                      IN  [exc    |-> "none",
                           data   |-> FileRead(f, pos + 2, n),
                           height |-> r.height,
                           width  |-> width]

\* Mutant of GetChCached: the glyph cache never consulted
GetChCachedNever(r, ch) == FALSE

\* get_ch: if self.cache_chars and ch in self.cache
GetChCached(r, ch) == r.cache_chars /\ ch \in DOMAIN r.cache

\* get_ch: the stream.read calls one call makes, in order: the index (unless
\* retained), the 2 bytes of the width, the bitmap.  A call that raises ends
\* its reads where it raises.
get_ch_reads(r, f, ch) ==
    IF GetChCached(r, ch) THEN << >>
    ELSE LET idx   == IF r.index # << >> THEN << >>
                      ELSE <<[kind |-> "index", ch |-> ch, pos |-> IndexSeek,
                              n |-> r.index_len]>>
             found == bs(GetChIndex(r, f), ch)
             pos   == HeaderLen + r.index_len + found.off * 8
             wb    == FileRead(f, pos, 2)
         IN  IF found.exc # "none" THEN idx
             ELSE idx \o <<[kind |-> "width", ch |-> ch, pos |-> pos, n |-> 2]>>
                      \o (IF ~ReadInt16Defined(wb) THEN << >>
                          ELSE <<[kind |-> "data", ch |-> ch, pos |-> pos + 2,
                                  n |-> ((read_int_16(wb) + 7) \div 8) * r.height]>>)

\* MicroFont.get_ch: [rd |-> the reader afterwards, ret |-> what the call gave].
\* self.index is << >> for None and <<bytes>> once retained; self.cache is a
\* function from the cached characters to their triples; reads is the log of
\* the stream.read calls of get_ch on this reader.
get_ch(r, f, ch) ==
    IF GetChCached(r, ch)
    THEN [rd |-> r, ret |-> r.cache[ch]]
    ELSE LET r0  == [r EXCEPT !.reads = @ \o get_ch_reads(r, f, ch)]
             r1  == IF r.index = << >> /\ r.cache_index
                    THEN [r0 EXCEPT !.index = <<FileRead(f, IndexSeek, r.index_len)>>]
                    ELSE r0
             val == GetChDecode(r, f, ch)
         IN  [rd  |-> IF r.cache_chars /\ val.exc = "none"
                      THEN [r1 EXCEPT !.cache =
                               [c \in DOMAIN r.cache \cup {ch} |->
                                   IF c = ch THEN val ELSE r.cache[c]]]
                      ELSE r1,
              ret |-> val]

(***************************************************************************)
(* SpecFont: build a container from a Font, open it, look characters up    *)
(***************************************************************************)
\* Bounds of the inputs
MaxMaskH == 2       \* rows of a rasterized glyph mask: 1 .. MaxMaskH
MaxCalls == 2       \* get_ch calls on one reader

\* --errchar values: '?' (the default) and 'B', a fallback inside the range
DefChars == {63, 66}
\* -c charsets ({} is the default "": the ordinal range minchar .. maxchar)
Charsets == {{}, {65}, {66}, {65, 66}, {65, 321}, {65, 66, 321}}
\* --smallest / --largest (66 .. 65 is an empty range)
CharRanges == {<<65, 65>>, <<65, 66>>, <<65, 67>>, <<66, 65>>}
\* What the rasterizer covers (get_char_index(c) != 0)
Coverages == {{63, 65, 66, 67, 321}, {63, 65, 67, 321}}
AllChars == {63, 65, 66, 67, 321}
GlyphVariants == {1, 2, 3}

\* The glyph the rasterizer renders for character c, one family per variant:
\* 1 narrow masks with a left bearing and a fractional advance, 2 masks of
\* 8 .. 14 columns (two bytes a row), 3 a negative left bearing and masks
\* down to zero columns, 4 masks of 1 .. 3 columns one pixel right of the
\* origin with an advance of the mask's width.  Masks hold 0/1 as
\* unpack_mono_bitmap leaves them.
InputGlyph(c, gv) ==
    LET mh   == 1 + (c % MaxMaskH)
        mw   == CASE gv = 1 -> 1 + (c % 7)
                  [] gv = 2 -> 8 + (c % 7)
                  [] gv = 4 -> 1 + (c % 3)
                  [] OTHER  -> c % 7
        left == CASE gv = 1 -> c % 2
                  [] gv = 2 -> 0
                  [] gv = 4 -> 1
                  [] OTHER  -> -1
        top  == IF c % 3 = 0 THEN mh - 1 ELSE mh
        adv  == CASE gv = 1 -> 64 * (mw + left) + 16 * (c % 4)
                  [] gv = 2 -> 64 * 8
                  [] gv = 4 -> 64 * mw
                  [] OTHER  -> 64 * (c % 5)
    IN  Glyph([i \in 1..(mw * mh) |-> IF (c + i) % 3 = 0 THEN 0 ELSE 1],
              mw, mh, top, left, adv)

InputFace(gv) == [c \in AllChars |-> InputGlyph(c, gv)]

InitFont ==
    \E defchar \in DefChars, charset \in Charsets, cr \in CharRanges,
       covered \in Coverages, gv \in GlyphVariants,
       monospaced \in BOOLEAN, reverse \in BOOLEAN :
        LET f == Font(InputFace(gv), cr[1], cr[2], monospaced, defchar, charset, covered)
        IN  /\ f.exc = "none"
            /\ fnt = f
            /\ args = [hmap |-> TRUE, reverse |-> reverse,
                       charset |-> charset, covered |-> covered]
            /\ file = << >>
            /\ rd = Idle
            /\ ret = Idle
            /\ fpc = "built"
            /\ bsv = Idle /\ cap = Idle /\ drw = Idle /\ fit = Idle /\ wr = Idle /\ asg = Idle

\* write_font: open(op_path, "wb") and write_data
WriteFont ==
    /\ fpc = "built"
    /\ LET w == write_data(fnt, args.hmap, args.reverse)
       IN  /\ file' = w.out
           /\ fpc' = IF w.exc = "none" THEN "written" ELSE "failed"
    /\ UNCHANGED <<fnt, args, rd, ret>>

\* MicroFont(filename, cache_index, cache_chars)
Open ==
    /\ fpc = "written"
    /\ \E ci \in BOOLEAN, cc \in BOOLEAN :
          LET r == MicroFontInit(file, ci, cc)
          IN  /\ rd' = r
              /\ fpc' = IF r.exc = "none" THEN "open" ELSE "failed"
    /\ UNCHANGED <<fnt, args, file, ret>>

\* The characters looked up: every built one, 'D' (never built), and two whose
\* ordinals are the first two 16-bit words of the header
LookupChars == DOMAIN fnt.glyph \cup {68, 77 + 256 * 70, rd.height + 256 * rd.baseline}

\* font.get_ch(chr(c))
GetCh ==
    /\ fpc = "open"
    /\ rd.calls < MaxCalls
    /\ \E c \in LookupChars :
          LET g == get_ch(rd, file, c)
          IN  /\ rd' = [g.rd EXCEPT !.calls = @ + 1]
              /\ ret' = [ch |-> c, val |-> g.ret]
    /\ UNCHANGED <<fnt, args, file, fpc>>


NextFont ==
    \/ WriteFont /\ UNCHANGED <<bsv, cap, drw, fit, wr, asg>>
    \/ Open /\ UNCHANGED <<bsv, cap, drw, fit, wr, asg>>
    \/ GetCh /\ UNCHANGED <<bsv, cap, drw, fit, wr, asg>>

SpecFont ==
    InitFont /\ [][NextFont]_vars

(***************************************************************************)
(* The container on storage, read back field by field                      *)
(***************************************************************************)
\* write_font has returned and the container is in `file`.  Nothing writes the
\* file afterwards: Open and GetCh leave it, the font and the arguments as
\* they are (FileKept), so what holds of the file here holds from here on.
Written == fpc = "written"
FileKept ==
    [][(fpc = "written" \/ fpc = "open") => (file' = file /\ fnt' = fnt /\ args' = args)]_vars
FileIndexLen == UnpackU32(Slice(file, 8, 12))
FileSparse == Slice(file, HeaderLen, HeaderLen + FileIndexLen)
FileData == Slice(file, HeaderLen + FileIndexLen, Len(file))
NEntries == Len(FileSparse) \div 4
\* Entry i of the index (0 <= i < NEntries), read at its place in the file
EntryCode(i) == At(file, HeaderLen + 4 * i) + 256 * At(file, HeaderLen + 4 * i + 1)
EntryOff(i) == At(file, HeaderLen + 4 * i + 2) + 256 * At(file, HeaderLen + 4 * i + 3)
IndexCodes == {EntryCode(i) : i \in 0..(NEntries - 1)}

\* The glyph block the builder serializes for character c
ExpectedBlock(c) ==
    ToBytes2(fnt.glyph[c].width) \o stream_char(fnt, c, args.hmap, args.reverse)

\* The data section holds c's block at byte offset pos
BlockAt(pos, c) ==
    LET block == ExpectedBlock(c)
        start == HeaderLen + FileIndexLen + pos
    IN  Slice(file, start, start + Len(block)) = block

\* The triple the glyph block at data offset 0 decodes to
FallbackTriple ==
    LET width == read_int_16(Slice(FileData, 0, 2))
    IN  [exc    |-> "none",
         data   |-> Slice(FileData, 2, 2 + ((width + 7) \div 8) * At(file, 4)),
         height |-> At(file, 4),
         width  |-> width]

Looked == fpc = "open" /\ rd.calls > 0

\* C1 (as claimed): for a character with an entry in the sparse index, get_ch
\* returns the width build_arrays stored for it, the header's height, exactly
\* the packed rows serialized for it, and ceil(width/8) * height bytes.
C1_RoundTrip ==
    (Looked /\ ret.ch \in IndexCodes) =>
        /\ ret.val.exc = "none"
        /\ ret.val.width = fnt.glyph[ret.ch].width
        /\ ret.val.height = At(file, 4)
        /\ ret.val.data = stream_char(fnt, ret.ch, args.hmap, args.reverse)
        /\ Len(ret.val.data) = ((ret.val.width + 7) \div 8) * ret.val.height

\* C2 (as claimed): for a character with no entry in the sparse index, get_ch
\* raises nothing and returns the triple of the glyph block at data offset 0,
\* the same triple get_ch returns for the fallback character.
C2_MissIsFallback ==
    (Looked /\ ret.ch \notin IndexCodes) =>
        /\ ret.val.exc = "none"
        /\ ret.val = FallbackTriple
        /\ ret.val = get_ch(rd, file, fnt.defchar).ret

\* The first block of the data section is the fallback glyph's
FallbackFirst == BlockAt(0, fnt.charset[1])

\* C6 (as claimed): the fallback glyph is the first block and has no index
\* entry: one 4-byte entry per present character other than the fallback.
C6_FallbackNotIndexed ==
    Written =>
        /\ FallbackFirst
        /\ IndexCodes = DOMAIN fnt.glyph \ {fnt.defchar}
        /\ Len(FileSparse) = 4 * Cardinality(DOMAIN fnt.glyph \ {fnt.defchar})

\* C6 (amended): the fallback glyph is the first block, and the fallback
\* character is indexed like every other present character: one 4-byte entry
\* per present character, the fallback's code among them.
C6_FallbackFirstAndIndexed ==
    Written =>
        /\ FallbackFirst
        /\ fnt.defchar \in IndexCodes
        /\ IndexCodes = DOMAIN fnt.glyph
        /\ Len(FileSparse) = 4 * Cardinality(DOMAIN fnt.glyph)

\* C6 witness: the container of fallback '?' plus the single glyph 'A' is
\* written, and its index is 8 bytes long
C6_Witness ==
    /\ fpc = "written"
    /\ fnt.defchar = 63
    /\ DOMAIN fnt.glyph = {63, 65}
    /\ Len(FileSparse) = 8

\* C7: every index entry {code, off} has its character's block (2-byte width,
\* packed rows) at data offset off * 8, whatever the lengths of the blocks
\* before it, and the entries are in strictly increasing code order.
C7_PaddingInvariant ==
    Written =>
        /\ \A i \in 0..(NEntries - 1) :
              /\ EntryCode(i) \in DOMAIN fnt.glyph
              /\ LET block == ExpectedBlock(EntryCode(i))
                     start == HeaderLen + FileIndexLen + EntryOff(i) * 8
                 IN  /\ Slice(file, start, start + Len(block)) = block
                     /\ start + Len(block) <= Len(file)
        /\ \A i \in 0..(NEntries - 2) : EntryCode(i) < EntryCode(i + 1)

\* C7 witness: a written container with at least three entries in which a
\* block whose length is no multiple of 8 is followed by padding
C7_Witness ==
    /\ fpc = "written"
    /\ NEntries >= 3
    /\ \E i \in 0..(NEntries - 2) :
          /\ Len(ExpectedBlock(EntryCode(i))) % 8 # 0
          /\ EntryOff(i + 1) * 8 > EntryOff(i) * 8 + Len(ExpectedBlock(EntryCode(i)))

\* Characters of the inputs the rasterizer does not cover
Uncovered == AllChars \ args.covered

\* C13: in both charset modes a character the rasterizer does not cover has
\* no index entry and no glyph block in the container built: only covered
\* characters, and the fallback block, are serialized.
C13_CoverageHoles ==
    Written =>
        /\ \A c \in Uncovered : c \notin IndexCodes
        /\ \A c \in Uncovered \ {fnt.defchar} : c \notin DOMAIN fnt.glyph

\* Explicit charset, fallback covered: the uncovered characters are holes
C13_ExplicitHoles ==
    (Written /\ args.charset # {} /\ fnt.defchar \in args.covered) =>
        /\ \A c \in Uncovered : c \notin IndexCodes
        /\ \A c \in Uncovered : c \notin DOMAIN fnt.glyph

\* An explicit charset 'AB' with 'B' not covered, built with a hole for 'B'
C13_WitnessHole ==
    /\ Written /\ args.charset = {65, 66} /\ 66 \notin args.covered
    /\ fnt.defchar = 63
    /\ IndexCodes = {63, 65}

\* The reader is open
ReaderOpen == fpc = "open"

\* Number of reads of one kind get_ch made for character c on the reader
ReadCount(kind, c) ==
    Cardinality({i \in DOMAIN rd.reads : rd.reads[i].kind = kind /\ rd.reads[i].ch = c})
IndexReadCount == Cardinality({i \in DOMAIN rd.reads : rd.reads[i].kind = "index"})
ReadChars == {rd.reads[i].ch : i \in DOMAIN rd.reads}

CacheCounts ==
    ReaderOpen =>
        /\ rd.cache_chars => rd.cache_index
        /\ rd.cache_index => IndexReadCount <= 1
        /\ rd.cache_chars => \A c \in ReadChars : ReadCount("data", c) <= 1
        /\ ~rd.cache_index => rd.index = << >>
        /\ ~rd.cache_chars => rd.cache = << >>

CacheKept ==
    (ReaderOpen /\ fpc' = "open") =>
        /\ rd.index # << >> => rd'.index = rd.index
        /\ \A c \in DOMAIN rd.cache : c \in DOMAIN rd'.cache /\ rd'.cache[c] = rd.cache[c]

\* C12: on one reader, over any sequence of get_ch calls: the per-glyph cache
\* flag turns the index cache on; with the index cache on the index is read
\* from storage at most once; with the per-glyph cache on the glyph block of
\* each character is read at most once; a retained index or cached glyph is
\* never removed or changed by a later call; with both flags off the index
\* stays unset and the glyph cache empty.
C12_CacheRetention == []CacheCounts /\ [][CacheKept]_vars

\* C12 witness: two calls for one character on a reader with the per-glyph
\* cache: the second was served from the cache, one index read and one block
\* read in all
C12_Witness ==
    /\ ReaderOpen /\ rd.cache_chars /\ rd.calls = 2
    /\ Cardinality(DOMAIN rd.cache) = 1
    /\ IndexReadCount = 1
    /\ \E c \in DOMAIN rd.cache : ReadCount("data", c) = 1 /\ ret.ch = c
    /\ Len(rd.reads) = 3

\* C12 witness: two calls on a reader with the index cache only: one index
\* read, two block reads for the same character
C12_WitnessIndexOnly ==
    /\ ReaderOpen /\ rd.cache_index /\ ~rd.cache_chars /\ rd.calls = 2
    /\ IndexReadCount = 1
    /\ ReadCount("data", ret.ch) = 2

\* What a reader with both caches off returns for character c: it retains
\* nothing, so each of its calls reads the unchanged file anew
UncachedGetCh(c) == get_ch(MicroFontInit(file, FALSE, FALSE), file, c).ret

\* C17: whatever the cache_index / cache_chars flags of the reader and
\* whatever calls came before, each get_ch call returns what a reader with
\* both flags off returns for that character on the same file: the flags
\* change the storage reads, never a result.
C17_CacheTransparency ==
    (ReaderOpen /\ rd.calls > 0) => ret.val = UncachedGetCh(ret.ch)

\* C17 witness: a glyph served from the per-glyph cache on the second call,
\* with no storage read
C17_Witness ==
    /\ ReaderOpen /\ rd.cache_chars /\ rd.calls = 2
    /\ ret.val.exc = "none" /\ ret.val.width > 0
    /\ Len(rd.reads) = 3
    /\ ret.ch \in DOMAIN rd.cache

\* C17 witness: a second call that searched the retained index and read its
\* block from storage
C17_WitnessIndex ==
    /\ ReaderOpen /\ rd.cache_index /\ ~rd.cache_chars /\ rd.calls = 2
    /\ ret.val.exc = "none"
    /\ Len(rd.reads) = 5

(***************************************************************************)
(* SpecBs: MicroFont.bs, one probe per step, on well-formed indexes        *)
(***************************************************************************)
MaxEntries == 7     \* entries of the index searched

\* Character codes of index entries; 258, 321 and 17997 have a high byte
BsCodes == {3, 63, 65, 66, 258, 321, 4000, 17997}
\* Targets: every code, and values below, between and above them
BsTargets == BsCodes \cup {0, 4, 64, 100, 259, 65535}
\* Block offsets: entry i (from 0) gets i + 1, or 300 * (i + 1) (a high byte)
BsOffsetVariants == {1, 300}

\* The index bytes of codes ks (sorted) with offsets scale * (i + 1)
RECURSIVE SparseOf(_, _, _)
SparseOf(ks, i, scale) ==
    IF i > Len(ks) THEN << >>
    ELSE ToBytes2(ks[i]) \o ToBytes2(scale * i) \o SparseOf(ks, i + 1, scale)

InitBs ==
    \E S \in SUBSET BsCodes, scale \in BsOffsetVariants, val \in BsTargets :
        /\ S # {}
        /\ Cardinality(S) <= MaxEntries
        /\ bsv = [pc     |-> "probe",
                  index0 |-> SparseOf(Sorted(S), 1, scale),
                  index  |-> SparseOf(Sorted(S), 1, scale),
                  base   |-> 0,
                  val    |-> val,
                  res    |-> 0,
                  probes |-> {},
                  steps  |-> 0]
        /\ fnt = Idle /\ args = Idle /\ file = << >>
        /\ rd = Idle /\ ret = Idle /\ fpc = "idle"
        /\ cap = Idle /\ drw = Idle /\ fit = Idle /\ wr = Idle /\ asg = Idle

BsM == bs_m(bsv.index)
BsV == bs_v(bsv.index, BsM)
BsProbed == [bsv EXCEPT !.probes = @ \cup {bsv.base + BsM}, !.steps = @ + 1]

\* if v == val: return index[m+2] | index[m+3] << 8
BsHit ==
    /\ bsv.pc = "probe"
    /\ BsV = bsv.val
    /\ bsv' = [BsProbed EXCEPT
                  !.pc = "done",
                  !.res = BitOr(At(bsv.index, BsM + 2), At(bsv.index, BsM + 3) * 256)]

\* if not m: return 0
BsMiss ==
    /\ bsv.pc = "probe"
    /\ BsV # bsv.val
    /\ BsM = 0
    /\ bsv' = [BsProbed EXCEPT !.pc = "done", !.res = 0]

\* index = index[m:] if v < val else index[:m]
BsNarrow ==
    /\ bsv.pc = "probe"
    /\ BsV # bsv.val
    /\ BsM # 0
    /\ bsv' = [BsProbed EXCEPT
                  !.index = bs_half(bsv.index, BsM, BsV, bsv.val),
                  !.base  = IF BsV < bsv.val THEN @ + BsM ELSE @]

NextBs ==
    \/ BsHit /\ UNCHANGED <<fontVars, cap, drw, fit, wr, asg>>
    \/ BsMiss /\ UNCHANGED <<fontVars, cap, drw, fit, wr, asg>>
    \/ BsNarrow /\ UNCHANGED <<fontVars, cap, drw, fit, wr, asg>>

SpecBs == InitBs /\ [][NextBs]_vars

\* Entries of the original index (0-based i)
Bs0Entries == Len(bsv.index0) \div 4
Bs0Code(i) == At(bsv.index0, 4 * i) + 256 * At(bsv.index0, 4 * i + 1)
Bs0Off(i) == At(bsv.index0, 4 * i + 2) + 256 * At(bsv.index0, 4 * i + 3)

\* C3: on a non-empty index of 4-byte entries with strictly increasing codes,
\* for every 16-bit target, bs terminates (each probe shrinks the range), every
\* probe is at a multiple of 4 inside the index, and the result is the offset
\* of the entry whose code is the target, or 0 when there is none.
C3_BsCorrect ==
    /\ \A p \in bsv.probes : p % 4 = 0 /\ p >= 0 /\ p + 3 < Len(bsv.index0)
    /\ bsv.pc = "probe" =>
          /\ Len(bsv.index) >= 4
          /\ Len(bsv.index) % 4 = 0
          /\ BsM % 4 = 0 /\ BsM + 3 < Len(bsv.index)
          /\ bsv.index = Slice(bsv.index0, bsv.base, bsv.base + Len(bsv.index))
          /\ bsv.steps + (Len(bsv.index) \div 4) <= Bs0Entries
    /\ bsv.pc = "done" =>
          /\ bsv.steps <= Bs0Entries
          /\ \A i \in 0..(Bs0Entries - 1) : Bs0Code(i) = bsv.val => bsv.res = Bs0Off(i)
          /\ (\A i \in 0..(Bs0Entries - 1) : Bs0Code(i) # bsv.val) => bsv.res = 0
          /\ bs(bsv.index0, bsv.val) = [exc |-> "none", off |-> bsv.res]

\* C3 witness: a search of at least five entries that narrowed at least twice
\* and then found its target
C3_Witness ==
    /\ bsv.pc = "done"
    /\ Bs0Entries >= 5
    /\ bsv.steps >= 3
    /\ bsv.res # 0
    /\ \E i \in 0..(Bs0Entries - 1) : Bs0Code(i) = bsv.val

\* C3 witness of the miss: a search that narrowed to one non-matching entry
C3_WitnessMiss ==
    /\ bsv.pc = "done"
    /\ bsv.steps >= 3
    /\ bsv.res = 0
    /\ \A i \in 0..(Bs0Entries - 1) : Bs0Code(i) # bsv.val

(***************************************************************************)
(* SpecCap: write_font on fonts near the capacity of the 16-bit block      *)
(* offsets.  The data section is followed by its length, not its bytes:    *)
(* cap.dataLen is len(data), cap.entries the offsets put in the index.     *)
(***************************************************************************)
MaxCapKeys == 66    \* present characters of the font

\* The size named by build_arrays' capacity error
CapLimit == 524287

\* Font heights
CapHeights == {24, 255}
\* Glyph widths: small, the widest a one-byte max_width allows, widths that
\* put a block start at and just past block 65535, the widest a 2-byte
\* width holds, and one more
CapWidths == {8, 255, 43680, 43688, 65535, 65536}
\* The output path before the build: absent, or an earlier 100-byte file
OldOutputs == {[exists |-> FALSE, len |-> 0], [exists |-> TRUE, len |-> 100]}

\* len() of what append_data appends (horizontally mapped rows)
BlockLen(w, h) == 2 + ((w + 7) \div 8) * h

\* len(data) after: pad = len(data) % 8; if pad: data += bytearray(8 - pad)
PadLen(n) == IF n % 8 # 0 THEN n + (8 - (n % 8)) ELSE n

\* Mutant of OpenWb: the file opened without truncating it
OpenAppend(o) == [exists |-> TRUE, len |-> o.len]

\* open(op_path, "wb"): the path is created, or truncated to length 0
OpenWb(o) == [exists |-> TRUE, len |-> 0]

\* Font.max_width, the largest of advance and mask width, for stored widths
\* wd and wo.  A stored width (char_width of _assign_values) adds the left
\* bearing: with `bearing` the glyphs stored wider than 255 are masks 1
\* pixel wide with an advance of 1 and a left bearing of width - 1; without
\* it every stored width is the glyph's advance.
CapMaxWidth(wd, wo, bearing) ==
    LET measured(w) == IF bearing /\ w > 255 THEN 1 ELSE w
    IN  Max2(measured(wd), measured(wo))

InitCap ==
    \E h \in CapHeights, n \in 1..MaxCapKeys, wd \in CapWidths, wo \in CapWidths,
       first \in BOOLEAN, old \in OldOutputs, bearing \in BOOLEAN :
      LET d == IF first THEN 1 ELSE n IN
        /\ cap = [pc      |-> "start",
                  height  |-> h,
                  max_width |-> CapMaxWidth(wd, IF n = 1 THEN wd ELSE wo, bearing),
                  widths  |-> [i \in 1..n |-> IF i = d THEN wd ELSE wo],
                  defidx  |-> d,
                  out0    |-> old,
                  out     |-> old,
                  i       |-> 0,
                  dataLen |-> 0,
                  entries |-> << >>,
                  last    |-> 0,
                  exc     |-> "none"]
        /\ fnt = Idle /\ args = Idle /\ file = << >>
        /\ rd = Idle /\ ret = Idle /\ fpc = "idle"
        /\ bsv = Idle /\ drw = Idle /\ fit = Idle /\ wr = Idle /\ asg = Idle

\* write_font: with open(op_path, "wb") as stream
CapOpen ==
    /\ cap.pc = "start"
    /\ cap' = [cap EXCEPT !.pc = "opened", !.out = OpenWb(cap.out)]

\* write_font: except OSError: print; return False
CapOpenFails ==
    /\ cap.pc = "start"
    /\ cap' = [cap EXCEPT !.pc = "returned False"]

\* build_arrays: append_data(data, self.charset[0])
CapFirst ==
    /\ cap.pc = "opened"
    /\ ToBytes2Fits(cap.widths[cap.defidx])
    /\ cap' = [cap EXCEPT !.pc = "loop", !.i = 1,
                          !.dataLen = BlockLen(cap.widths[cap.defidx], cap.height)]

\* write_data: minchar = min(fnt.crange) raises ValueError on an empty range
\* (--smallest above --largest), before build_arrays; nothing in write_font
\* catches it.  Such a font holds the default character alone, and the
\* record does not tell it from a one-character font with a range.
CapRangeValueError ==
    /\ cap.pc = "opened"
    /\ Len(cap.widths) = 1
    /\ cap' = [cap EXCEPT !.pc = "raised", !.exc = "ValueError"]

CapFirstOverflow ==
    /\ cap.pc = "opened"
    /\ ~ToBytes2Fits(cap.widths[cap.defidx])
    /\ cap' = [cap EXCEPT !.pc = "raised", !.exc = "OverflowError"]

CapInLoop == cap.pc = "loop" /\ cap.i <= Len(cap.widths)
CapStart == PadLen(cap.dataLen)

\* build_arrays: one character of the loop: index entry, padding, block
CapStep ==
    /\ CapInLoop
    /\ ToBytes2Fits(CapStart \div 8)
    /\ ToBytes2Fits(cap.widths[cap.i])
    /\ cap' = [cap EXCEPT
                  !.i = @ + 1,
                  !.entries = Append(@, (CapStart \div 8) % 65536),
                  !.last = CapStart,
                  !.dataLen = CapStart + BlockLen(cap.widths[cap.i], cap.height)]

\* except OverflowError: raise ValueError("Total size of font bitmap exceeds
\* 524287 bytes."); nothing in write_font catches it
CapStepValueError ==
    /\ CapInLoop
    /\ ~ToBytes2Fits(CapStart \div 8)
    /\ cap' = [cap EXCEPT !.pc = "raised", !.exc = "ValueError",
                          !.last = CapStart, !.dataLen = CapStart]

\* append_data: (width).to_bytes(2) overflows, outside the try, after the
\* padding and the index entry of this character
CapStepOverflow ==
    /\ CapInLoop
    /\ ToBytes2Fits(CapStart \div 8)
    /\ ~ToBytes2Fits(cap.widths[cap.i])
    /\ cap' = [cap EXCEPT !.pc = "raised", !.exc = "OverflowError",
                          !.entries = Append(@, (CapStart \div 8) % 65536),
                          !.last = CapStart, !.dataLen = CapStart]

\* build_arrays: return data, sparse
CapReturn ==
    /\ cap.pc = "loop"
    /\ cap.i > Len(cap.widths)
    /\ cap' = [cap EXCEPT !.pc = "built"]

\* struct.pack("<BBBBL", height, _max_ascent, max_width, ...): height and
\* max_width fit a byte (_max_ascent is at most height)
CapHeaderFits == FitsU8(cap.height) /\ FitsU8(cap.max_width)

\* write_data: stream.write(header); stream.write(sparse); stream.write(data)
CapWrite ==
    /\ cap.pc = "built"
    /\ CapHeaderFits
    /\ cap' = [cap EXCEPT
                  !.pc = "written",
                  !.out = [exists |-> TRUE,
                           len |-> HeaderLen + 4 * Len(cap.entries) + cap.dataLen]]

\* write_data: struct.pack of a height or width above 255 raises struct.error
CapWriteStructError ==
    /\ cap.pc = "built"
    /\ ~CapHeaderFits
    /\ cap' = [cap EXCEPT !.pc = "raised", !.exc = "struct.error"]

NextCap ==
    \/ CapOpen /\ UNCHANGED <<fontVars, bsv, drw, fit, wr, asg>>
    \/ CapOpenFails /\ UNCHANGED <<fontVars, bsv, drw, fit, wr, asg>>
    \/ CapRangeValueError /\ UNCHANGED <<fontVars, bsv, drw, fit, wr, asg>>
    \/ CapFirst /\ UNCHANGED <<fontVars, bsv, drw, fit, wr, asg>>
    \/ CapFirstOverflow /\ UNCHANGED <<fontVars, bsv, drw, fit, wr, asg>>
    \/ CapStep /\ UNCHANGED <<fontVars, bsv, drw, fit, wr, asg>>
    \/ CapStepValueError /\ UNCHANGED <<fontVars, bsv, drw, fit, wr, asg>>
    \/ CapStepOverflow /\ UNCHANGED <<fontVars, bsv, drw, fit, wr, asg>>
    \/ CapReturn /\ UNCHANGED <<fontVars, bsv, drw, fit, wr, asg>>
    \/ CapWrite /\ UNCHANGED <<fontVars, bsv, drw, fit, wr, asg>>
    \/ CapWriteStructError /\ UNCHANGED <<fontVars, bsv, drw, fit, wr, asg>>

SpecCap == InitCap /\ [][NextCap]_vars

CapBuilt == cap.pc \in {"built", "written"} \/ (cap.pc = "raised" /\ cap.exc = "struct.error")
\* The capacity error: the ValueError raised in the loop of build_arrays
\* (the one of an empty range is raised before the loop, at i = 0)
CapError == cap.pc = "raised" /\ cap.exc = "ValueError" /\ cap.i >= 1

\* C4 (as claimed): whenever build_arrays returns normally the data section
\* is at most 524287 bytes long.
C4_DataWithinLimit == CapBuilt => cap.dataLen <= CapLimit

\* C4 (amended): the capacity error is raised exactly when a block would have
\* to start past block 65535, that is when the padded data before it exceeds
\* 524287 bytes; when build_arrays returns normally every index entry holds
\* the true start of its block, a multiple of 8 that is at most 524280, and
\* only the last block may reach past 524287.
C4_StartsWithinLimit ==
    /\ CapBuilt =>
          /\ \A k \in 1..Len(cap.entries) : cap.entries[k] * 8 <= CapLimit - 7
          /\ Len(cap.entries) = Len(cap.widths)
          /\ cap.entries[Len(cap.entries)] * 8 = cap.last
          /\ cap.dataLen = cap.last + BlockLen(cap.widths[Len(cap.widths)], cap.height)
    /\ CapError => cap.last > CapLimit
    /\ (cap.pc = "loop" /\ cap.dataLen > CapLimit) => cap.last <= CapLimit - 7

\* C4 witness: the capacity error was raised
C4_Witness == CapError /\ Len(cap.entries) >= 2

\* C5 (as claimed): on the capacity error no byte has reached the output file
\* and the output path is as it was before the build, neither created nor
\* truncated.
C5_OutputUntouched == CapError => cap.out = cap.out0

\* C5 (amended): on the capacity error no byte has reached the output file,
\* which write_font had already opened for writing: the path exists and is
\* empty.
C5_NoByteWritten ==
    /\ CapError => cap.out = [exists |-> TRUE, len |-> 0]
    /\ cap.pc \in {"opened", "loop", "built"} => cap.out = [exists |-> TRUE, len |-> 0]

\* C5 witness: the capacity error on a build whose output file existed before
C5_Witness == CapError /\ cap.out0.exists /\ cap.out0.len > 0

(***************************************************************************)
(* microfont.py: fast_sin, fast_cos, draw_ch_blit, draw_ch                 *)
(***************************************************************************)
\* FAST_SIN_TABLE: sin(A) * 64 + 64 for A = 0 .. 179 degrees
FAST_SIN_TABLE ==
    <<64, 65, 66, 67, 68, 69, 70, 71, 72, 74, 75, 76, 77, 78, 79, 80, 81, 82,
      83, 84, 85, 86, 87, 89, 90, 91, 92, 93, 94, 95, 95, 96, 97, 98, 99, 100,
      101, 102, 103, 104, 105, 105, 106, 107, 108, 109, 110, 110, 111, 112,
      113, 113, 114, 115, 115, 116, 117, 117, 118, 118, 119, 119, 120, 121,
      121, 122, 122, 122, 123, 123, 124, 124, 124, 125, 125, 125, 126, 126,
      126, 126, 127, 127, 127, 127, 127, 127, 127, 127, 127, 127, 128, 127,
      127, 127, 127, 127, 127, 127, 127, 127, 127, 126, 126, 126, 126, 125,
      125, 125, 124, 124, 124, 123, 123, 122, 122, 122, 121, 121, 120, 119,
      119, 118, 118, 117, 117, 116, 115, 115, 114, 113, 113, 112, 111, 110,
      110, 109, 108, 107, 106, 105, 105, 104, 103, 102, 101, 100, 99, 98, 97,
      96, 95, 95, 94, 93, 92, 91, 90, 89, 87, 86, 85, 84, 83, 82, 81, 80, 79,
      78, 77, 76, 75, 74, 72, 71, 70, 69, 68, 67, 66, 65>>

\* Mutant of fast_sin: the second half-period without its sign flip
fast_sin_unsigned(angle) == At(FAST_SIN_TABLE, (angle % 360) % 180) - 64

\* fast_sin(angle)
fast_sin(angle) ==
    LET a == angle % 360
    IN  IF a >= 180 THEN -(At(FAST_SIN_TABLE, a % 180) - 64)
        ELSE At(FAST_SIN_TABLE, a) - 64

\* fast_cos(angle)
fast_cos(angle) == fast_sin(angle + 90)

\* draw_ch: the sin / cos pair handed to draw_ch_blit, with the fast path for
\* the four canonical rotations
DrawChSinCos(rot) ==
    IF rot = 0 THEN <<0, 64>>
    ELSE IF rot = 90 THEN <<64, 0>>
    ELSE IF rot = 180 THEN <<0, -64>>
    ELSE IF rot = 270 THEN <<-64, 0>>
    ELSE <<fast_sin(rot), fast_cos(rot)>>

\* draw_ch_blit: dx and dy of glyph pixel (x, y) at oversampling step `step`
BlitDx(x, y, step, dst_x, off_x, off_y, sin_a, cos_a) ==
    LET s == step * 16 + step * 8
    IN  dst_x + ((((x + off_x) * 64 + s) * cos_a - ((y + off_y) * 64 + s) * sin_a + 2048)
                 \div 4096)

BlitDy(x, y, step, dst_y, off_x, off_y, sin_a, cos_a) ==
    LET s == step * 16 + step * 8
    IN  dst_y + ((((x + off_x) * 64 + s) * sin_a + ((y + off_y) * 64 + s) * cos_a + 2048)
                 \div 4096)

\* draw_ch_blit: ch_pixel = (ch_buf[ch_byte] >> (7-(x&7))) & 1
ChPixel(ch_buf, ch_width, x, y) ==
    (At(ch_buf, (ch_width \div 8) * y + (x \div 8)) \div Pow2(7 - (x % 8))) % 2

\* Mutant of MonoSkip: the column test left out
MonoSkipNoColumn(fb_byte, fb_len, dx, fb_width) == fb_byte < 0 \/ fb_byte >= fb_len

\* draw_ch_blit, 1-bit surface: the pixel is skipped
MonoSkip(fb_byte, fb_len, dx, fb_width) ==
    fb_byte < 0 \/ fb_byte >= fb_len \/ dx >= fb_width \/ dx < 0

\* draw_ch_blit, 16-bit surface: the pixel is skipped
RgbSkip(fb_word, fb_len, dx, fb_width) ==
    fb_word < 0 \/ fb_word >= fb_len \div 2 \/ dx >= fb_width \/ dx < 0

\* A ptr8 store: fb[i] = v keeps the low 8 bits.  Memory outside the buffer
\* is not part of the model; such a store shows in the log of stores only.
Store8(fb, i, v) == IF i >= 0 /\ i < Len(fb) THEN [fb EXCEPT ![i + 1] = v % 256] ELSE fb

\* A ptr16 store: fb16[i] = v, little-endian, low 16 bits
Store16(fb, i, v) == Store8(Store8(fb, 2 * i, v % 256), 2 * i + 1, (v \div 256) % 256)

\* draw_ch_blit, 1-bit surface: the byte written for pixel column dx
MonoByte(old, dx, color) ==
    LET fb_bit_shift == 7 - (dx % 8)
        fb_bit_mask  == BitXor(255, Pow2(fb_bit_shift))
    IN  BitOr(BitAnd(old, fb_bit_mask), color * Pow2(fb_bit_shift))

\* COLORMODE_MONO_HLSB = const(0), COLORMODE_RGB_565 = const(1)
COLORMODE_MONO_HLSB == 0
COLORMODE_RGB_565 == 1

\* draw_ch_blit, the body of `for step in range(2)` for a set glyph pixel
\* (x, y).  acc = [fb, stores, skipped]: the buffer, the stores made, the
\* samples that were dropped.
BlitSample(a, acc, x, y, step) ==
    LET dx == BlitDx(x, y, step, a.dst_x, a.off_x, a.off_y, a.sin_a, a.cos_a)
        dy == BlitDy(x, y, step, a.dst_y, a.off_x, a.off_y, a.sin_a, a.cos_a)
        p  == dy * a.fb_width + dx
    IN  IF a.colormode = COLORMODE_MONO_HLSB
        THEN IF MonoSkip(p \div 8, a.fb_len, dx, a.fb_width)
             THEN [acc EXCEPT !.skipped = @ \cup {<<dx, dy>>}]
             ELSE [acc EXCEPT
                     !.fb = Store8(@, p \div 8, MonoByte(At(acc.fb, p \div 8), dx, a.color)),
                     !.stores = @ \cup {[idx |-> p \div 8, dx |-> dx, dy |-> dy]}]
        ELSE IF a.colormode = COLORMODE_RGB_565
        THEN IF RgbSkip(p, a.fb_len, dx, a.fb_width)
             THEN [acc EXCEPT !.skipped = @ \cup {<<dx, dy>>}]
             ELSE [acc EXCEPT
                     !.fb = Store16(@, p, a.color),
                     !.stores = @ \cup {[idx |-> p, dx |-> dx, dy |-> dy]}]
        ELSE acc

\* draw_ch_blit, the body of the loops for sample k: glyph pixel
\* (x, y) = ((k div 2) mod ch_width, k div (2 * ch_width)) at step k mod 2,
\* the order in which the three nested loops visit the samples
BlitStep(a, acc, k) ==
    LET y == k \div (2 * a.ch_width)
        x == (k \div 2) % a.ch_width
    IN  IF ChPixel(a.ch_buf, a.ch_width, x, y) = 0 THEN acc
        ELSE BlitSample(a, acc, x, y, k % 2)

\* draw_ch_blit, the loops over samples lo..hi in order (lo <= hi): the first
\* half is run to its end, then the second half on the buffer it left (a
\* store changes a byte of the buffer, never its length)
RECURSIVE BlitFrom(_, _, _, _)
BlitFrom(a, acc, lo, hi) ==
    IF lo = hi THEN BlitStep(a, acc, lo)
    ELSE LET mid  == (lo + hi) \div 2
             left == BlitFrom(a, acc, lo, mid)
         IN  IF Len(left.fb) = Len(acc.fb) THEN BlitFrom(a, left, mid + 1, hi) ELSE left

\* MicroFont.draw_ch_blit on the arguments a
draw_ch_blit(fb, a) ==
    LET acc == [fb |-> fb, stores |-> {}, skipped |-> {}]
        n   == 2 * a.ch_width * a.ch_height
    IN  IF n = 0 THEN acc ELSE BlitFrom(a, acc, 0, n - 1)

\* draw_ch: the arguments it hands to draw_ch_blit for glyph triple ch on a
\* surface of a supported format, with the sin / cos pair sc
BlitArgs(ch, fb_fmt, fb_width, fb_height, dst_x, dst_y, color, off_x, off_y, sc) ==
    [fb_width  |-> fb_width,
     fb_len    |-> IF fb_fmt = "MONO_HLSB" THEN (fb_width * fb_height) \div 8
                   ELSE fb_width * fb_height * 2,
     ch_buf    |-> ch.data,
     ch_width  |-> ((ch.width + 7) \div 8) * 8,
     ch_height |-> ch.height,
     dst_x |-> dst_x, dst_y |-> dst_y, off_x |-> off_x, off_y |-> off_y,
     color |-> color, sin_a |-> sc[1], cos_a |-> sc[2],
     colormode |-> IF fb_fmt = "MONO_HLSB" THEN COLORMODE_MONO_HLSB ELSE COLORMODE_RGB_565]

(***************************************************************************)
(* SpecDraw: one glyph drawn into a surface                                *)
(***************************************************************************)
\* Surfaces <<fb_width, fb_height>>; 5 x 3 is no whole number of bytes
DrawSurfaces == {<<8, 4>>, <<5, 3>>, <<16, 2>>}
\* framebuf formats; GS8 is one draw_ch does not support
DrawFormats == {"MONO_HLSB", "RGB565", "GS8"}
\* Glyph triples as get_ch returns them: 3 x 2, 9 x 2 (two bytes a row), 8 x 3
DrawGlyphs ==
    {[data |-> <<224, 160>>, height |-> 2, width |-> 3],
     [data |-> <<255, 128, 129, 128>>, height |-> 2, width |-> 9],
     [data |-> <<255, 255, 255>>, height |-> 3, width |-> 8]}
DstXs == {-1, 0, 6, 40}
DstYs == {-9, 0, 2}
DrawOffsets == {<<0, 0>>, <<4, 0>>, <<-2, -1>>}
\* rot of draw_ch
DrawRots == {0, 90, 180, 270, 45, 200, -90, 450}
\* sin_a / cos_a of a direct draw_ch_blit call: not only unit vectors
DrawSinCos == {<<64, 64>>, <<17, -50>>, <<0, 128>>}
DrawColors(fmt) == IF fmt = "MONO_HLSB" THEN {0, 1} ELSE {0, 63519}

\* The buffer of a framebuf surface: rows of whole bytes (1-bit), 2 bytes a pixel
SurfaceBytes(fmt, w, h) == IF fmt = "MONO_HLSB" THEN ((w + 7) \div 8) * h ELSE 2 * w * h

InitDraw ==
    \E sf \in DrawSurfaces, fmt \in DrawFormats, fill \in {0, 255} :
        /\ drw = [pc |-> "ready", fmt |-> fmt, w |-> sf[1], h |-> sf[2],
                  fb0 |-> [i \in 1..SurfaceBytes(fmt, sf[1], sf[2]) |-> fill],
                  fb  |-> [i \in 1..SurfaceBytes(fmt, sf[1], sf[2]) |-> fill],
                  stores |-> {}, skipped |-> {}, via |-> "none", rot |-> 0,
                  a |-> Idle, exc |-> "none"]
        /\ fnt = Idle /\ args = Idle /\ file = << >>
        /\ rd = Idle /\ ret = Idle /\ fpc = "idle"
        /\ bsv = Idle /\ cap = Idle /\ fit = Idle /\ wr = Idle /\ asg = Idle

DrawSupported == drw.fmt \in {"MONO_HLSB", "RGB565"}

DrawResult(via, rot, a) ==
    LET r == draw_ch_blit(drw.fb, a)
    IN  [drw EXCEPT !.pc = "drawn", !.fb = r.fb, !.stores = r.stores,
                    !.skipped = r.skipped, !.via = via, !.rot = rot, !.a = a]

\* font.draw_ch(ch, fb, fb_fmt, fb_width, fb_height, dst_x, dst_y, color,
\*              off_x, off_y, rot)
DrawCh ==
    /\ drw.pc = "ready"
    /\ DrawSupported
    /\ \E ch \in DrawGlyphs, dst_x \in DstXs, dst_y \in DstYs, off \in DrawOffsets,
          rot \in DrawRots, color \in DrawColors(drw.fmt) :
          drw' = DrawResult("draw_ch", rot,
                            BlitArgs(ch, drw.fmt, drw.w, drw.h, dst_x, dst_y, color,
                                     off[1], off[2], DrawChSinCos(rot)))

\* draw_ch: raise ValueError("Unsupported framebuffer color format")
DrawChUnsupported ==
    /\ drw.pc = "ready"
    /\ ~DrawSupported
    /\ drw' = [drw EXCEPT !.pc = "raised", !.exc = "ValueError", !.via = "draw_ch"]

\* font.draw_ch_blit(...) called with a sin / cos pair of the caller's
DrawChBlit ==
    /\ drw.pc = "ready"
    /\ DrawSupported
    /\ \E ch \in DrawGlyphs, dst_x \in DstXs, dst_y \in DstYs, off \in DrawOffsets,
          sc \in DrawSinCos, color \in DrawColors(drw.fmt) :
          drw' = DrawResult("draw_ch_blit", 0,
                            BlitArgs(ch, drw.fmt, drw.w, drw.h, dst_x, dst_y, color,
                                     off[1], off[2], sc))

NextDraw ==
    \/ DrawCh /\ UNCHANGED <<fontVars, bsv, cap, fit, wr, asg>>
    \/ DrawChUnsupported /\ UNCHANGED <<fontVars, bsv, cap, fit, wr, asg>>
    \/ DrawChBlit /\ UNCHANGED <<fontVars, bsv, cap, fit, wr, asg>>

SpecDraw == InitDraw /\ [][NextDraw]_vars

Drawn == drw.pc = "drawn"

\* C8: every store of draw_ch_blit is to an element inside the surface (byte
\* index in [0, fb_len) for 1-bit, word index in [0, fb_len / 2) for 16-bit),
\* the element of a pixel with 0 <= dx < fb_width and 0 <= dy < fb_height;
\* pixels outside are skipped, none wraps into another row, nothing is raised,
\* and nothing outside the stored elements changes.
C8_BoundsSafety ==
    Drawn =>
        /\ drw.exc = "none"
        /\ \A st \in drw.stores :
              /\ st.dx >= 0 /\ st.dx < drw.w
              /\ st.dy >= 0 /\ st.dy < drw.h
              /\ IF drw.fmt = "MONO_HLSB"
                 THEN /\ st.idx >= 0 /\ st.idx < drw.a.fb_len
                      /\ st.idx = (st.dy * drw.w + st.dx) \div 8
                 ELSE /\ st.idx >= 0 /\ st.idx < drw.a.fb_len \div 2
                      /\ st.idx = st.dy * drw.w + st.dx
              /\ st.idx < Len(drw.fb) \div (IF drw.fmt = "MONO_HLSB" THEN 1 ELSE 2)
        /\ \A sk \in drw.skipped :
              ~(sk[1] >= 0 /\ sk[1] < drw.w /\ sk[2] >= 0 /\ sk[2] < drw.h)
              \/ (drw.fmt = "MONO_HLSB" /\ (sk[2] * drw.w + sk[1]) \div 8 >= drw.a.fb_len)
        /\ Len(drw.fb) = Len(drw.fb0)
        /\ \A i \in 1..Len(drw.fb) :
              drw.fb[i] # drw.fb0[i] =>
                  \E st \in drw.stores :
                      i - 1 \in (IF drw.fmt = "MONO_HLSB" THEN {st.idx}
                                 ELSE {2 * st.idx, 2 * st.idx + 1})

\* C8 witness: a rotated glyph partly off the surface: some of its pixels
\* were stored, others dropped on the left and above
C8_Witness ==
    /\ Drawn
    /\ drw.a.sin_a # 0 /\ drw.a.cos_a # 0
    /\ drw.stores # {}
    /\ \E sk \in drw.skipped : sk[1] < 0
    /\ \E sk \in drw.skipped : sk[1] >= drw.w
    /\ drw.fb # drw.fb0

\* C8 witness: a glyph fully off the surface: nothing stored, nothing raised
C8_WitnessOff ==
    /\ Drawn
    /\ drw.a.dst_x = 40
    /\ drw.stores = {}
    /\ drw.skipped # {}
    /\ drw.fb = drw.fb0

\* draw_ch_blit, 1-bit surface: fb_bit_shift = 7-((dx)&7), the bit of the
\* byte that the store for pixel column dx sets or clears
MonoBitShift(dx) == 7 - (dx % 8)

\* Bit b of a byte
BitOf(byte, b) == (byte \div Pow2(b)) % 2

\* The stores of the last draw whose destination is on the surface
InBoundsStores ==
    {st \in drw.stores : st.dx >= 0 /\ st.dx < drw.w /\ st.dy >= 0 /\ st.dy < drw.h}

\* p = dy * fb_width + dx, the number of the pixel a store was made for
PixelIndex(st) == st.dy * drw.w + st.dx

MonoDrawn == Drawn /\ drw.fmt = "MONO_HLSB"

\* The stores of a 1-bit draw, taken together, changed no bit other than bit
\* 7 - (p mod 8) of byte p div 8 of the pixels p stored, and left the color
\* in those bits
MonoOnlyPixelBits ==
    /\ \A i \in 0..(Len(drw.fb) - 1), b \in 0..7 :
          BitOf(At(drw.fb, i), b) # BitOf(At(drw.fb0, i), b) =>
              \E st \in InBoundsStores :
                  PixelIndex(st) \div 8 = i /\ 7 - (PixelIndex(st) % 8) = b
    /\ \A st \in InBoundsStores :
          BitOf(At(drw.fb, PixelIndex(st) \div 8), 7 - (PixelIndex(st) % 8)) = drw.a.color

\* Two stores for different pixels went to different bits
MonoDistinctBits ==
    \A s, t \in InBoundsStores :
        <<s.dx, s.dy>> # <<t.dx, t.dy>> =>
            <<s.idx, MonoBitShift(s.dx)>> # <<t.idx, MonoBitShift(t.dx)>>

\* C15: on a 1-bit surface of any width and height, with color 0 or 1, a
\* store for an in-bounds pixel (dx, dy) changes at most bit 7 - (p mod 8)
\* of byte p div 8, p = dy * fb_width + dx, and no other bit of the surface,
\* so two different in-bounds pixels never share a bit.
C15_SingleBitStore == MonoDrawn => MonoOnlyPixelBits /\ MonoDistinctBits

\* The same on surfaces whose width is a multiple of 8, where p mod 8 is
\* dx mod 8
MonoSingleBitAligned ==
    (MonoDrawn /\ drw.w % 8 = 0) => MonoOnlyPixelBits /\ MonoDistinctBits

\* A draw on a surface 5 pixels wide where the pixels (0, 0) and (0, 1) were
\* both stored: p = 0 and p = 5, both written to bit 7 of byte 0
C15_WitnessShared ==
    /\ MonoDrawn /\ drw.w = 5
    /\ \E s, t \in InBoundsStores :
          /\ s.dx = 0 /\ s.dy = 0 /\ t.dx = 0 /\ t.dy = 1
          /\ s.idx = t.idx /\ MonoBitShift(s.dx) = MonoBitShift(t.dx)

CanonicalRots == {0, 90, 180, 270}

\* C9: for rot in {0, 90, 180, 270} the pair draw_ch's fast path hands to
\* draw_ch_blit is (fast_sin(rot), fast_cos(rot)), namely (0,64), (64,0),
\* (0,-64), (-64,0), so the surface drawn is the one the table path draws.
C9_RotationIdentity ==
    (Drawn /\ drw.via = "draw_ch" /\ drw.rot \in CanonicalRots) =>
        /\ <<drw.a.sin_a, drw.a.cos_a>> = <<fast_sin(drw.rot), fast_cos(drw.rot)>>
        /\ <<fast_sin(0), fast_cos(0)>> = <<0, 64>>
        /\ <<fast_sin(90), fast_cos(90)>> = <<64, 0>>
        /\ <<fast_sin(180), fast_cos(180)>> = <<0, -64>>
        /\ <<fast_sin(270), fast_cos(270)>> = <<-64, 0>>
        /\ drw.fb = draw_ch_blit(drw.fb0,
                                 [drw.a EXCEPT !.sin_a = fast_sin(drw.rot),
                                               !.cos_a = fast_cos(drw.rot)]).fb

\* C9 witness: a glyph drawn at 270 degrees through draw_ch that changed the
\* surface
C9_Witness ==
    /\ Drawn /\ drw.via = "draw_ch" /\ drw.rot = 270
    /\ drw.stores # {}
    /\ drw.fb # drw.fb0

(***************************************************************************)
(* SpecFit: Font.get_dimensions, one pass of the height fit per step       *)
(***************************************************************************)
\* Largest required height of the runs
MaxFitH == 3
\* for npass in range(10)
FitPasses == 10
\* The character sets measured (the keys of the font)
FitKeySets == {{65}, {65, 66}}
\* <<rows, top>> of the masks the rasterizer may render, at any size and in
\* any order: achieved heights 0, 1, 2 and 4, with and without a descent
FitMetrics == {<<0, 0>>, <<1, 1>>, <<2, 1>>, <<4, 2>>}
FitGlyph(m) == Glyph(Zeros(m[1] * m[1]), m[1], m[1], m[2], 0, 64 * m[1] + 32)
FitFaces(keys) == [keys -> {FitGlyph(m) : m \in FitMetrics}]

\* Mutant of FitBreak: the loop left as soon as the error got smaller
FitBreakOnImprove(new_error, error) == new_error = 0 \/ Abs(new_error) < Abs(error)

\* get_dimensions: if (new_error == 0) or (abs(new_error) - abs(error) == 0): break
FitBreak(new_error, error) == new_error = 0 \/ Abs(new_error) - Abs(error) = 0

InitFit ==
    \E h \in 1..MaxFitH, keys \in FitKeySets :
        /\ fit = [pc |-> "ready", required_height |-> h, keys |-> keys,
                  npass |-> 0, height |-> 0, error |-> 0, new_error |-> 0,
                  max_ascent |-> 0, max_descent |-> 0, max_width |-> 0,
                  face_size |-> 0, passes |-> 0,
                  seen |-> [size |-> 0, ascent |-> 0, descent |-> 0, prev_error |-> 0],
                  self_height |-> 0, self_max_ascent |-> 0, self_max_descent |-> 0,
                  returned |-> 0]
        /\ fnt = Idle /\ args = Idle /\ file = << >>
        /\ rd = Idle /\ ret = Idle /\ fpc = "idle"
        /\ bsv = Idle /\ cap = Idle /\ drw = Idle /\ wr = Idle /\ asg = Idle

\* get_dimensions(required_height): error = 0; height = required_height
FitStart ==
    /\ fit.pc = "ready"
    /\ fit' = [fit EXCEPT !.pc = "loop", !.error = 0, !.height = fit.required_height]

\* One pass of the for loop: the size is set, every key rendered and
\* measured, the error taken and the loop left or continued.  `seen` keeps
\* what the rasterizer showed in this pass and the error of the pass before.
FitPass ==
    /\ fit.pc = "loop"
    /\ \E face \in FitFaces(fit.keys) :
          LET height    == fit.height + fit.error
              dim       == Measure(face, fit.keys)
              new_error == fit.required_height - (dim.max_ascent + dim.max_descent)
              stop      == FitBreak(new_error, fit.error)
              last      == fit.npass + 1 >= FitPasses
          IN  fit' = [fit EXCEPT
                        !.height = height,
                        !.face_size = height,
                        !.max_ascent = dim.max_ascent,
                        !.max_descent = dim.max_descent,
                        !.max_width = dim.max_width,
                        !.new_error = new_error,
                        !.error = IF stop THEN @ ELSE new_error,
                        !.npass = IF stop \/ last THEN @ ELSE @ + 1,
                        !.passes = @ + 1,
                        !.seen = [size       |-> height,
                                  ascent     |-> SetMax({face[c].ascent : c \in fit.keys}),
                                  descent    |-> SetMax({face[c].descent : c \in fit.keys}),
                                  prev_error |-> fit.new_error],
                        !.pc = IF stop \/ last THEN "after" ELSE "loop"]

\* The rasterizer raises in set_pixel_sizes: get_dimensions has no handler,
\* the exception leaves it with the maxima of the pass before
FitPassRaises ==
    /\ fit.pc = "loop"
    /\ fit' = [fit EXCEPT !.pc = "raised", !.height = fit.height + fit.error,
                          !.face_size = fit.height + fit.error]

\* The rasterizer raises in load_char: the size is set, the maxima were reset
\* to 0 and hold the glyphs of the keys measured before the one that raised
FitLoadCharRaises ==
    /\ fit.pc = "loop"
    /\ \E face \in FitFaces(fit.keys), measured \in SUBSET fit.keys :
          /\ measured # fit.keys
          /\ LET dim == Measure(face, measured)
             IN  fit' = [fit EXCEPT !.pc = "raised",
                                    !.height = fit.height + fit.error,
                                    !.face_size = fit.height + fit.error,
                                    !.max_ascent = dim.max_ascent,
                                    !.max_descent = dim.max_descent,
                                    !.max_width = dim.max_width]

\* After the loop: self.height, self._max_ascent, self._max_descent are set
\* and max_width returned
FitReturn ==
    /\ fit.pc = "after"
    /\ fit' = [fit EXCEPT !.pc = "done",
                          !.self_height = fit.max_ascent + fit.max_descent,
                          !.self_max_ascent = fit.max_ascent,
                          !.self_max_descent = fit.max_descent,
                          !.returned = fit.max_width]

NextFit ==
    \/ FitStart /\ UNCHANGED <<fontVars, bsv, cap, drw, wr, asg>>
    \/ FitPass /\ UNCHANGED <<fontVars, bsv, cap, drw, wr, asg>>
    \/ FitPassRaises /\ UNCHANGED <<fontVars, bsv, cap, drw, wr, asg>>
    \/ FitLoadCharRaises /\ UNCHANGED <<fontVars, bsv, cap, drw, wr, asg>>
    \/ FitReturn /\ UNCHANGED <<fontVars, bsv, cap, drw, wr, asg>>

\* A call of get_dimensions once started runs on: each step that can be
\* taken is taken
SpecFit == InitFit /\ [][NextFit]_vars /\ WF_vars(NextFit)

FitOver == fit.pc \in {"done", "raised"}
FitLeftLoop == fit.pc \in {"after", "done"}

FitWithinPasses ==
    /\ fit.passes <= FitPasses
    /\ fit.pc = "loop" => fit.passes < FitPasses

FitEarlyStopRule ==
    (FitLeftLoop /\ fit.passes < FitPasses) =>
        \/ fit.new_error = 0
        \/ fit.passes > 1 /\ Abs(fit.new_error) >= Abs(fit.seen.prev_error)

FitReportsLastPass ==
    fit.pc = "done" =>
        /\ fit.new_error = fit.required_height - (fit.seen.ascent + fit.seen.descent)
        /\ fit.self_height = fit.seen.ascent + fit.seen.descent
        /\ fit.self_max_ascent = fit.seen.ascent
        /\ fit.self_max_descent = fit.seen.descent
        /\ fit.face_size = fit.seen.size

FitMeasured == fit.pc \in {"loop", "after", "done"} /\ fit.passes >= 2

\* C14: from the second pass on, a pass whose error is zero or at least as
\* large in magnitude as the error of the pass before is the last one;
\* after any other pass the loop goes on, and the next trial size is the
\* current trial size plus the current error.
C14_StopRule ==
    FitMeasured =>
        IF fit.new_error = 0 \/ Abs(fit.new_error) >= Abs(fit.seen.prev_error)
        THEN FitLeftLoop
        ELSE fit.passes < FitPasses =>
                 fit.pc = "loop" /\ fit.height + fit.error = fit.seen.size + fit.new_error

\* The rule the loop follows: it ends on an error of zero or of the same
\* magnitude as the one before, and goes on after a larger one
FitStopsOnEqual ==
    FitMeasured =>
        IF fit.new_error = 0 \/ Abs(fit.new_error) = Abs(fit.seen.prev_error)
        THEN FitLeftLoop
        ELSE fit.passes < FitPasses =>
                 fit.pc = "loop" /\ fit.height + fit.error = fit.seen.size + fit.new_error

\* A second pass with a larger error than the first, and the loop going on
C14_WitnessWorse ==
    /\ fit.pc = "loop" /\ fit.passes = 2
    /\ Abs(fit.new_error) > Abs(fit.seen.prev_error)
    /\ fit.seen.prev_error # 0

\* C10: get_dimensions makes at most 10 rasterization passes and then ends,
\* whatever the rasterizer renders; when it leaves the loop before the 10th
\* pass the error of the last pass is zero or not smaller in magnitude than
\* the error of the pass before; the height, max ascent and max descent it
\* reports are those of the last pass, measured at the pixel size the face is
\* left at.
C10_HeightFitTerminates ==
    /\ [](FitWithinPasses /\ FitEarlyStopRule /\ FitReportsLastPass)
    /\ <>FitOver

\* C10 witness: a run that returned after all 10 passes with an error left
C10_Witness ==
    /\ fit.pc = "done"
    /\ fit.passes = FitPasses
    /\ fit.new_error # 0
    /\ Abs(fit.new_error) # Abs(fit.seen.prev_error)

\* C10 witness: a run that stopped early on an error as large as the one
\* before it, at a size other than the required height
C10_WitnessEarly ==
    /\ fit.pc = "done"
    /\ fit.passes > 1 /\ fit.passes < FitPasses
    /\ fit.new_error # 0
    /\ fit.face_size # fit.required_height

(***************************************************************************)
(* SpecWrite: MicroFont.write, one character of the text per step          *)
(***************************************************************************)
\* Longest text written
MaxTextLen == 3
\* '\n'
Newline == 10

\* The fonts written with: '?' as fallback, 'A' and 'B', narrow or two-byte
\* glyph rows, proportional or monospaced
WriteFonts ==
    {Font(InputFace(gv), 65, 66, monospaced, 63, {65, 66}, {63, 65, 66}) :
        gv \in {1, 2}, monospaced \in BOOLEAN}
\* Characters of the texts: 'A', 'B', a newline and the character whose
\* ordinal is the second 16-bit word of the container's header
WriteAlphabet(r) == {65, 66, Newline, r.height + 256 * r.baseline}
WriteTexts(r) == UNION {[1..n -> WriteAlphabet(r)] : n \in 0..MaxTextLen}
\* <<x, y>> of the caller
WriteOrigins == {<<0, 0>>, <<3, 1>>}
\* <<x_spacing, y_spacing>>
WriteSpacings == {<<0, 0>>, <<2, 1>>}
WriteRots == {0, 90}
\* The surface written to: 1 bit a pixel, 16 x 8, 16 bytes
WriteFbWidth == 16
WriteFbHeight == 8

InitWrite ==
    \E f \in WriteFonts, cached \in BOOLEAN, org \in WriteOrigins,
       sp \in WriteSpacings, rot \in WriteRots :
        LET w == write_data(f, TRUE, FALSE)
            r == MicroFontInit(w.out, cached, cached)
        IN  /\ f.exc = "none" /\ w.exc = "none" /\ r.exc = "none"
            /\ fnt = f
            /\ args = [hmap |-> TRUE, reverse |-> FALSE]
            /\ file = w.out
            /\ rd = r
            /\ ret = Idle
            /\ fpc = "open"
            /\ \E txt \in WriteTexts(r) :
                  wr = [pc |-> "loop", txt |-> txt, i |-> 0,
                        x |-> org[1], y |-> org[2],
                        x_spacing |-> sp[1], y_spacing |-> sp[2], rot |-> rot,
                        off_x |-> 0, off_y |-> 0,
                        fb |-> Zeros(SurfaceBytes("MONO_HLSB", WriteFbWidth, WriteFbHeight)),
                        draws |-> << >>, exc |-> "none"]
            /\ bsv = Idle /\ cap = Idle /\ drw = Idle /\ fit = Idle /\ asg = Idle

WriteCur == wr.txt[wr.i + 1]

\* write, the loop body for c == '\n'
WriteNewline ==
    /\ wr.pc = "loop" /\ wr.i < Len(wr.txt)
    /\ WriteCur = Newline
    /\ wr' = [wr EXCEPT !.off_y = @ + rd.height + wr.y_spacing,
                        !.off_x = 0,
                        !.i = @ + 1]
    /\ UNCHANGED <<fnt, args, file, rd, ret, fpc>>

\* write, the loop body for a character: get_ch, draw_ch, off_x advanced
WriteChar ==
    /\ wr.pc = "loop" /\ wr.i < Len(wr.txt)
    /\ WriteCur # Newline
    /\ LET g == get_ch(rd, file, WriteCur)
       IN  /\ g.ret.exc = "none"
           /\ LET ch == g.ret
                  a  == BlitArgs(ch, "MONO_HLSB", WriteFbWidth, WriteFbHeight,
                                 wr.x, wr.y, 1, wr.off_x, wr.off_y,
                                 DrawChSinCos(wr.rot))
              IN  wr' = [wr EXCEPT
                           !.fb = draw_ch_blit(@, a).fb,
                           !.draws = Append(@, [pos |-> wr.i + 1, c |-> WriteCur,
                                                width |-> ch.width,
                                                dst_x |-> a.dst_x, dst_y |-> a.dst_y,
                                                off_x |-> a.off_x, off_y |-> a.off_y]),
                           !.off_x = @ + wr.x_spacing + ch.width,
                           !.i = @ + 1]
           /\ rd' = g.rd
           /\ ret' = [ch |-> WriteCur, val |-> g.ret]
    /\ UNCHANGED <<fnt, args, file, fpc>>

\* write: get_ch raises; write has no handler, the exception leaves it
WriteCharRaises ==
    /\ wr.pc = "loop" /\ wr.i < Len(wr.txt)
    /\ WriteCur # Newline
    /\ LET g == get_ch(rd, file, WriteCur)
       IN  /\ g.ret.exc # "none"
           /\ wr' = [wr EXCEPT !.pc = "raised", !.exc = g.ret.exc]
           /\ rd' = g.rd
           /\ ret' = [ch |-> WriteCur, val |-> g.ret]
    /\ UNCHANGED <<fnt, args, file, fpc>>

\* write: the text is at its end
WriteReturn ==
    /\ wr.pc = "loop" /\ wr.i = Len(wr.txt)
    /\ wr' = [wr EXCEPT !.pc = "done"]
    /\ UNCHANGED <<fnt, args, file, rd, ret, fpc>>

NextWrite ==
    \/ WriteNewline /\ UNCHANGED <<bsv, cap, drw, fit, asg>>
    \/ WriteChar /\ UNCHANGED <<bsv, cap, drw, fit, asg>>
    \/ WriteCharRaises /\ UNCHANGED <<bsv, cap, drw, fit, asg>>
    \/ WriteReturn /\ UNCHANGED <<bsv, cap, drw, fit, asg>>

SpecWrite == InitWrite /\ [][NextWrite]_vars

WriteOver == wr.pc \in {"done", "raised"}

\* Position of the last newline before position j of the text (0: none)
WriteLineStart(j) == SetMax({0} \cup {k \in 1..(j - 1) : wr.txt[k] = Newline})
WriteNewlinesBefore(j) == Cardinality({k \in 1..(j - 1) : wr.txt[k] = Newline})

\* Sum of (glyph width + x_spacing) over the first n draws that are on the
\* line of position j and before it
RECURSIVE WriteAdvance(_, _)
WriteAdvance(j, n) ==
    IF n = 0 THEN 0
    ELSE (IF wr.draws[n].pos > WriteLineStart(j) /\ wr.draws[n].pos < j
          THEN wr.draws[n].width + wr.x_spacing ELSE 0)
         + WriteAdvance(j, n - 1)

\* The draw d is the one the layout rule gives for text position j
WriteLaidOut(d, j) ==
    /\ d.pos = j /\ d.c = wr.txt[j]
    /\ d.dst_x = wr.x /\ d.dst_y = wr.y
    /\ d.off_x = WriteAdvance(j, Len(wr.draws))
    /\ d.off_y = WriteNewlinesBefore(j) * (rd.height + wr.y_spacing)

\* The layout rule on the draws write made: draw n is for the n-th
\* non-newline character, at the offsets of the rule; a newline drew nothing
WriteDrawsLaidOut ==
    /\ \A n \in DOMAIN wr.draws : WriteLaidOut(wr.draws[n], wr.draws[n].pos)
    /\ \A n \in DOMAIN wr.draws : n > 1 => wr.draws[n - 1].pos < wr.draws[n].pos
    /\ \A n \in DOMAIN wr.draws : wr.txt[wr.draws[n].pos] # Newline
    /\ Len(wr.draws) = Cardinality({k \in 1..wr.i : wr.txt[k] # Newline})

\* C11: when write is over, every non-newline character of the text was drawn
\* with the caller's (x, y) as destination, off_x the sum of (glyph width +
\* x_spacing) over the characters drawn before it on its line and off_y the
\* number of newlines before it times (font height + y_spacing); a newline
\* drew nothing.
C11_WriteLayout ==
    WriteOver =>
        /\ WriteDrawsLaidOut
        /\ \A j \in 1..Len(wr.txt) :
              wr.txt[j] # Newline =>
                  \E n \in DOMAIN wr.draws : WriteLaidOut(wr.draws[n], j)

\* A write that ended well on a text of two lines with spacing: the second
\* line's character is drawn at off_x 0 one line down
C11_WitnessTwoLines ==
    /\ wr.pc = "done"
    /\ Len(wr.draws) = 2 /\ Len(wr.txt) = 3 /\ wr.txt[2] = Newline
    /\ wr.x_spacing = 2 /\ wr.x = 3
    /\ wr.draws[2].off_x = 0 /\ wr.draws[2].off_y = rd.height + 1

(***************************************************************************)
(* font_to_microfont.py: Font._assign_values, one character at a time      *)
(***************************************************************************)
\* The rasterizers: the variants of GlyphVariants and variant 4
BltVariants == GlyphVariants \cup {4}

\* self.keys(): the defined characters of the charset in the order
\* dict.fromkeys met them, each once: item 0 of the charset, then the others
\* by increasing ordinal
DictKeys(cs) ==
    IF cs = << >> THEN << >>
    ELSE (IF cs[1] = NoChar THEN << >> ELSE <<cs[1]>>) \o Sorted(FontKeys(cs) \ {cs[1]})

\* Font.__init__ up to `self.width = self.max_width if monospaced else 0`
InitBlt ==
    \E defchar \in DefChars, charset \in Charsets, cr \in CharRanges,
       covered \in Coverages, gv \in BltVariants, monospaced \in BOOLEAN :
        /\ FontCharsetDefined(defchar, charset, covered)
        /\ LET face == InputFace(gv)
               cs   == FontCharset(defchar, charset, cr[1], cr[2], covered)
               dim  == Measure(face, FontKeys(cs))
           IN  asg = [pc          |-> "ready",
                      face        |-> face,
                      monospaced  |-> monospaced,
                      keys        |-> DictKeys(cs),
                      i           |-> 1,
                      height      |-> dim.max_ascent + dim.max_descent,
                      max_descent |-> dim.max_descent,
                      max_width   |-> dim.max_width,
                      width       |-> IF monospaced THEN dim.max_width ELSE 0,
                      blits       |-> << >>,
                      values      |-> << >>,
                      exc         |-> "none"]
        /\ fnt = Idle /\ args = Idle /\ file = << >>
        /\ rd = Idle /\ ret = Idle /\ fpc = "idle"
        /\ bsv = Idle /\ cap = Idle /\ drw = Idle /\ fit = Idle /\ wr = Idle

\* _assign_values, the character the loop is at and what it computes for it
AssignCur == AssignValue(asg.face[asg.keys[asg.i]], asg.height, asg.max_descent, asg.width)

\* The call outbuffer.bitblt(glyph.bitmap, row, left) for the character the
\* loop is at: the output bitmap and the mask's place in it
AssignBlit ==
    [ch     |-> asg.keys[asg.i],
     width  |-> AssignCur.width,
     height |-> asg.height,
     src_w  |-> asg.face[asg.keys[asg.i]].bitmap.width,
     src_h  |-> asg.face[asg.keys[asg.i]].bitmap.height,
     row    |-> AssignCur.row,
     left   |-> AssignCur.left,
     pixels |-> AssignCur.bitmap.pixels,
     exc    |-> AssignCur.exc]

\* _assign_values: one turn of `for char in self.keys()`
AssignChar ==
    /\ asg.pc = "ready"
    /\ asg.i <= Len(asg.keys)
    /\ AssignCur.exc = "none"
    /\ asg' = [asg EXCEPT !.i = @ + 1,
                          !.blits = Append(@, AssignBlit),
                          !.values = Append(@, asg.keys[asg.i])]
    /\ UNCHANGED <<fnt, args, file, rd, ret, fpc, bsv, cap, drw, fit, wr>>

\* _assign_values: bitblt stores past the end of outbuffer.pixels
AssignCharRaises ==
    /\ asg.pc = "ready"
    /\ asg.i <= Len(asg.keys)
    /\ AssignCur.exc # "none"
    /\ asg' = [asg EXCEPT !.pc = "raised", !.exc = AssignCur.exc,
                          !.blits = Append(@, AssignBlit)]
    /\ UNCHANGED <<fnt, args, file, rd, ret, fpc, bsv, cap, drw, fit, wr>>

\* _assign_values: the loop is over
AssignReturn ==
    /\ asg.pc = "ready"
    /\ asg.i > Len(asg.keys)
    /\ asg' = [asg EXCEPT !.pc = "done"]
    /\ UNCHANGED <<fnt, args, file, rd, ret, fpc, bsv, cap, drw, fit, wr>>

NextBlt ==
    \/ AssignChar
    \/ AssignCharRaises
    \/ AssignReturn

SpecBlt == InitBlt /\ [][NextBlt]_vars

Blits == {asg.blits[i] : i \in DOMAIN asg.blits}

\* The rows of the mask are rows of the output bitmap
BlitRowsInside(b) == b.row >= 0 /\ b.row + b.src_h <= b.height

\* The columns of the mask are columns of the output bitmap
BlitColumnsInside(b) == b.left >= 0 /\ b.left + b.src_w <= b.width

\* The output pixels when every mask pixel lands on its own row and column
BlitPlaced(b) ==
    LET face == asg.face[b.ch].bitmap
    IN  [k \in 1..(b.width * b.height) |->
            LET r == (k - 1) \div b.width
                c == (k - 1) % b.width
            IN  IF r >= b.row /\ r < b.row + b.src_h /\ c >= b.left /\ c < b.left + b.src_w
                THEN At(face.pixels, (r - b.row) * b.src_w + (c - b.left))
                ELSE 0]

\* C16: for every glyph, in proportional and in monospaced mode, the blit
\* column plus the mask width is at most the output bitmap width, the blit
\* row is >= 0 and row plus mask height is at most the fitted height, so
\* bitblt writes no mask pixel into another row or past the end of the
\* pixel array.
C16_BlitInside ==
    /\ asg.pc # "raised"
    /\ \A b \in Blits :
          /\ BlitColumnsInside(b)
          /\ BlitRowsInside(b)
          /\ b.exc = "none" /\ b.pixels = BlitPlaced(b)

\* What holds in both modes: the rows
BlitRows == \A b \in Blits : BlitRowsInside(b)

\* What holds in proportional mode: rows and columns, nothing raised
BlitInsideProportional ==
    ~asg.monospaced =>
        /\ asg.pc # "raised"
        /\ \A b \in Blits :
              BlitColumnsInside(b) /\ BlitRowsInside(b) /\ b.pixels = BlitPlaced(b)

\* A monospaced build that ended in IndexError on a mask one column right of
\* the origin and as wide as the bitmap
C16_WitnessRaised ==
    /\ asg.pc = "raised" /\ asg.monospaced
    /\ \E b \in Blits : b.left = 1 /\ b.src_w = b.width /\ b.row + b.src_h = b.height

\* A monospaced build that went through with a mask's last column written
\* into the next row
C16_WitnessWrapped ==
    /\ asg.pc = "done" /\ asg.monospaced
    /\ \E b \in Blits : b.left + b.src_w > b.width /\ b.pixels # BlitPlaced(b)

====
